---- MODULE Spec2Model ----
(***************************************************************************)
(* Model of the UTEC Layer Tools plugin: renaming the selected layers by    *)
(* their parent group (modules/rename.py), undoing the last rename, and    *)
(* copying the selected layers to the project's GeoPackage                 *)
(* (modules/geopackage.py), and the indicators that show in the layer tree *)
(* where the data of a layer is stored (modules/layer_location.py).        *)
(*                                                                         *)
(* A string is a sequence of Unicode code points.  Layers are numbered     *)
(* 1, 2, ...; the groups of the layer tree are negative numbers and the    *)
(* root of the layer tree is 0.                                            *)
(***************************************************************************)
EXTENDS Integers, Sequences, FiniteSets, TLC

(***************************************************************************)
(* Strings                                                                 *)
(***************************************************************************)

\* str.endswith
EndsWith(s, suf) ==
    /\ Len(s) >= Len(suf)
    /\ SubSeq(s, Len(s) - Len(suf) + 1, Len(s)) = suf

\* The code points above 255 that the cp1252 codec encodes, with their byte.
Cp1252High ==
    { <<8364, 128>>, <<8218, 130>>, <<402, 131>>, <<8222, 132>>, <<8230, 133>>,
      <<8224, 134>>, <<8225, 135>>, <<710, 136>>, <<8240, 137>>, <<352, 138>>,
      <<8249, 139>>, <<338, 140>>, <<381, 142>>, <<8216, 145>>, <<8217, 146>>,
      <<8220, 147>>, <<8221, 148>>, <<8226, 149>>, <<8211, 150>>, <<8212, 151>>,
      <<732, 152>>, <<8482, 153>>, <<353, 154>>, <<8250, 155>>, <<339, 156>>,
      <<382, 158>>, <<376, 159>> }

\* name.encode("cp1252") succeeds: every character has a cp1252 byte.
Cp1252Encodable(s) ==
    \A i \in 1..Len(s) :
        \/ s[i] < 128
        \/ s[i] >= 160 /\ s[i] <= 255
        \/ \E p \in Cp1252High : p[1] = s[i]

\* name.encode("cp1252"), for an encodable name
Cp1252Encode(s) ==
    [i \in 1..Len(s) |->
        IF s[i] < 256 THEN s[i] ELSE (CHOOSE p \in Cp1252High : p[1] = s[i])[2]]

\* The length of the UTF-8 sequence a lead byte starts, 0 for no lead byte.
Utf8SeqLen(b1) ==
    IF b1 < 128 THEN 1
    ELSE IF b1 >= 194 /\ b1 <= 223 THEN 2
    ELSE IF b1 >= 224 /\ b1 <= 239 THEN 3
    ELSE IF b1 >= 240 /\ b1 <= 244 THEN 4
    ELSE 0

\* The first n bytes of b are one well-formed UTF-8 sequence.
Utf8Valid(b, n) ==
    /\ n > 0
    /\ Len(b) >= n
    /\ \A i \in 2..n : b[i] >= 128 /\ b[i] <= 191
    /\ (b[1] = 224 => b[2] >= 160)
    /\ (b[1] = 237 => b[2] <= 159)
    /\ (b[1] = 240 => b[2] >= 144)
    /\ (b[1] = 244 => b[2] <= 143)

\* The code point a well-formed UTF-8 sequence of n bytes encodes.
Utf8CodePoint(b, n) ==
    IF n = 1 THEN b[1]
    ELSE IF n = 2 THEN (b[1] - 192) * 64 + (b[2] - 128)
    ELSE IF n = 3 THEN (b[1] - 224) * 4096 + (b[2] - 128) * 64 + (b[3] - 128)
    ELSE (b[1] - 240) * 262144 + (b[2] - 128) * 4096
         + (b[3] - 128) * 64 + (b[4] - 128)

\* bytes.decode("utf-8"): ok is FALSE where Python raises UnicodeDecodeError.
RECURSIVE Utf8Decode(_)
Utf8Decode(b) ==
    IF b = <<>> THEN [ok |-> TRUE, s |-> <<>>]
    ELSE LET n == Utf8SeqLen(b[1]) IN
         IF ~Utf8Valid(b, n) THEN [ok |-> FALSE, s |-> <<>>]
         ELSE LET rest == Utf8Decode(SubSeq(b, n + 1, Len(b))) IN
              IF rest.ok
              THEN [ok |-> TRUE, s |-> <<Utf8CodePoint(b, n)>> \o rest.s]
              ELSE [ok |-> FALSE, s |-> <<>>]

\* The characters of the class [<>:"/\\|?*,] of fix_layer_name.
ProblematicChars == {60, 62, 58, 34, 47, 92, 124, 63, 42, 44}

\* re.sub(r'[<>:"/\\|?*,]+', "_", s): every run of problematic characters
\* becomes one underscore.
RECURSIVE Sanitize(_)
Sanitize(s) ==
    IF s = <<>> THEN <<>>
    ELSE IF s[1] \in ProblematicChars
    THEN IF Len(s) > 1 /\ s[2] \in ProblematicChars
         THEN Sanitize(Tail(s))
         ELSE <<95>> \o Sanitize(Tail(s))
    ELSE <<s[1]>> \o Sanitize(Tail(s))

\* fix_layer_name: only UnicodeEncodeError is suppressed, so a name that
\* cp1252 encodes to bytes that are no UTF-8 raises UnicodeDecodeError.
fix_layer_name(name) ==
    IF ~Cp1252Encodable(name)
    THEN [raised |-> "", value |-> Sanitize(name)]
    ELSE LET dec == Utf8Decode(Cp1252Encode(name)) IN
         IF dec.ok
         THEN [raised |-> "", value |-> Sanitize(dec.s)]
         ELSE [raised |-> "UnicodeDecodeError", value |-> <<>>]

(***************************************************************************)
(* Bounds of the model and the values the inputs are drawn from            *)
(***************************************************************************)

\* The layers the project holds at the start.
InitLayers == 2

\* The most layers ever created (the initial ones and the copies loaded back).
MaxLayers == 4

\* The most operations (of the plugin and of the user) in one run.
MaxOps == 3

\* The most nodes of the layer tree selected at once.
MaxSelected == 2

\* The most layers for which the writer fails in one copy operation.
MaxFailures == 1

\* The root of the layer tree (project.layerTreeRoot()).
Root == 0

\* The groups of the layer tree: -2 lies inside -1.
Groups == {-1, -2}

\* "a", "x", "G", "polylines", " - pl"
Str_a == <<97>>
Str_x == <<120>>
Str_G == <<71>>
Str_polylines == <<112, 111, 108, 121, 108, 105, 110, 101, 115>>
Str_pl == <<32, 45, 32, 112, 108>>

\* The names a group may carry: "G", "Gä" (cp1252 bytes that are no UTF-8),
\* "Ãœ:" (mojibake of "Ü" and a problematic character), "" (no name).
GroupNames == { Str_G, <<71, 228>>, <<195, 339, 58>>, <<>> }

\* The names the user gives to a layer by hand.
UserNames == { Str_x, Str_G }

\* QgsWkbTypes.geometryType of a vector layer; "NA" for a layer of another kind.
GeometryTypes == {"Point", "Line", "Polygon", "Null"}

(***************************************************************************)
(* State                                                                   *)
(***************************************************************************)

VARIABLES
    layers,      \* project.mapLayers(): layer id -> the layer
    nextId,      \* the id the next layer added to the project gets
    children,    \* the layer tree: root or group -> its child nodes, top down
    groupName,   \* group -> its name
    history,     \* the project entry UTEC_Layer_Tools/last_rename
    gpkgExists,  \* the project's GeoPackage file exists
    tables,      \* the tables of the project's GeoPackage: name -> table
    before,      \* layer id -> its name when rename_layers was last called
    renamed,     \* the layers renamed by the last call of rename_layers that
                 \* returned, and by the last call of it that renamed a layer
    customLayerOrder,  \* root.hasCustomLayerOrder() and root.customLayerOrder()
    pending,     \* rename_and_copy_layers after its rename_layers: the
                 \* selection copy_layers_to_gpkg is still to run on
    fileName,    \* project.fileName(): empty while the project is not saved
    os_name,     \* os.name: "posix" or "nt"
    node,        \* layer id -> the QgsLayerTreeLayer object of the layer
    view,        \* the layer tree view: node object -> the indicators on it
    nextObject,  \* the number the next node or indicator object gets
    location_indicators,  \* LocationIndicatorManager.location_indicators
    layer_locations,      \* LocationIndicatorManager.layer_locations
    shared_groups,        \* LocationIndicatorManager.shared_groups
    update_timer,         \* _update_timer.isActive()
    singleShots, \* the QTimer.singleShot calls that have not fired yet
    connected,   \* the signals the handlers of the manager are connected to
    editingStopped,       \* layer id -> the handlers connected to its
                          \* editingStopped signal
    lifecycle,   \* the plugin: "new", "loaded" (after initGui) or "unloaded"
    prev,        \* the operation before the last one
    ops,         \* the number of operations so far
    last         \* the last operation and what it returned

\* The state of the location indicators (modules/layer_location.py)
indicatorVars ==
    <<fileName, os_name, node, view, nextObject, location_indicators,
      layer_locations, shared_groups, update_timer, singleShots, connected,
      editingStopped, lifecycle>>

vars == <<layers, nextId, children, groupName, history, gpkgExists, tables,
          before, renamed, customLayerOrder, pending, prev, ops, last,
          indicatorVars>>

(***************************************************************************)
(* Paths (os.path, pathlib) and PluginContext (modules/context.py)         *)
(***************************************************************************)

\* sub in s, for two strings
Contains(s, sub) ==
    \E i \in 0..(Len(s) - Len(sub)) : SubSeq(s, i + 1, i + Len(sub)) = sub

\* str.startswith
StartsWith(s, pre) == Len(s) >= Len(pre) /\ SubSeq(s, 1, Len(pre)) = pre

\* str.lower, of the letters A..Z
Lower(s) ==
    [i \in 1..Len(s) |-> IF s[i] >= 65 /\ s[i] <= 90 THEN s[i] + 32 ELSE s[i]]

\* str.split("|")[0]
BeforeBar(s) ==
    IF \E i \in 1..Len(s) : s[i] = 124
    THEN SubSeq(s, 1, (CHOOSE i \in 1..Len(s) :
                         s[i] = 124 /\ \A j \in 1..(i - 1) : s[j] # 124) - 1)
    ELSE s

\* os.sep: "\" on Windows, "/" elsewhere
Sep == IF os_name = "nt" THEN <<92>> ELSE <<47>>

\* os.path.normcase: lower case and "\" for "/" on Windows, the string
\* itself elsewhere
normcase(s) ==
    IF os_name = "nt"
    THEN [i \in 1..Len(s) |-> IF s[i] = 47 THEN 92 ELSE Lower(s)[i]]
    ELSE s

\* str(Path(s)): the path with the separators of the platform
PathStr(s) ==
    IF os_name = "nt"
    THEN [i \in 1..Len(s) |-> IF s[i] = 47 THEN 92 ELSE s[i]]
    ELSE s

\* The index of the last separator of a path, 0 if it has none.
LastSep(s) ==
    IF \E i \in 1..Len(s) : <<s[i]>> = Sep
    THEN CHOOSE i \in 1..Len(s) :
            <<s[i]>> = Sep /\ \A j \in (i + 1)..Len(s) : <<s[j]>> # Sep
    ELSE 0

\* Path.parent, as a string: the root for a file in the root
PathParent(s) ==
    IF LastSep(s) = 0 THEN <<46>>
    ELSE IF LastSep(s) = 1 THEN Sep
    ELSE SubSeq(s, 1, LastSep(s) - 1)

\* Path.with_suffix(suffix): the last suffix of the file name, if it has
\* one, replaced by suffix
with_suffix(s, suffix) ==
    LET first == LastSep(s) + 1
        dots == { i \in (first + 1)..(Len(s) - 1) : s[i] = 46 }
    IN (IF dots = {} THEN s
        ELSE SubSeq(s, 1, (CHOOSE i \in dots : \A j \in dots : j <= i) - 1))
       \o suffix

\* ".gpkg", ".sqlite", "|layername=", "memory", "url=", "http:", "https:"
Str_dot_gpkg == <<46, 103, 112, 107, 103>>
Str_dot_sqlite == <<46, 115, 113, 108, 105, 116, 101>>
Str_layername == <<124, 108, 97, 121, 101, 114, 110, 97, 109, 101, 61>>
Str_memory == <<109, 101, 109, 111, 114, 121>>
Str_url == <<117, 114, 108, 61>>
Str_http == <<104, 116, 116, 112, 58>>
Str_https == <<104, 116, 116, 112, 115, 58>>

\* PluginContext.project_gpkg() of a saved project, as str() gives it
project_gpkg == with_suffix(PathStr(fileName), Str_dot_gpkg)

\* "/p/a.qgz", "/p/x.shp"
Path_project == <<47, 112, 47, 97, 46, 113, 103, 122>>
Path_shp == <<47, 112, 47, 120, 46, 115, 104, 112>>

\* A layer: QgsMapLayer.name(), its class, geometry type, featureCount() and
\* data source (a file, a web service with "url=" in the source, or a table
\* of the project's GeoPackage).
Layer(name, kind, geom, features, src) ==
    [name |-> name, kind |-> kind, geom |-> geom, features |-> features,
     src |-> src]

\* A data source: uri is QgsMapLayer.source()
FileAt(path) == [type |-> "file", table |-> <<>>, uri |-> path]
FileSource == FileAt(Path_shp)
WebSource ==
    [type |-> "web", table |-> <<>>,
     uri |-> Str_url \o Str_http \o <<47, 47, 104>>]
MemorySource ==
    [type |-> "memory", table |-> <<>>, uri |-> Str_memory \o <<63>>]
GpkgSource(table) ==
    [type |-> "gpkg", table |-> table,
     uri |-> project_gpkg \o Str_layername \o table]

\* Issue(layer, issue); the issue text is abbreviated to a tag
Issue(layer, issue) == [layer |-> layer, issue |-> issue]

\* ActionResults and what the handler did with it
NoOp ==
    [op |-> "none", raised |-> "", message |-> "", summary |-> FALSE,
     nothing_selected |-> FALSE, nodes |-> {},
     selected |-> <<>>, plan |-> <<>>, processed |-> <<>>, successes |-> <<>>,
     skips |-> <<>>, errors |-> <<>>, result |-> <<>>,
     asked |-> FALSE, answer |-> "", replaced |-> {}, added |-> <<>>]

\* What is remembered of the operation before the last one.
Summary(r) ==
    [op |-> r.op,
     cleared |-> r.op = "undo" /\ r.raised = ""
                 /\ (r.successes # <<>> \/ r.skips # <<>>)]

(***************************************************************************)
(* The layer tree                                                          *)
(***************************************************************************)

\* QgsLayerTreeGroup.findLayers() over a sequence of nodes: the layers at
\* any depth, top down.
RECURSIVE LayersOf(_, _)
LayersOf(ch, nodes) ==
    IF nodes = <<>> THEN <<>>
    ELSE (IF Head(nodes) > Root THEN <<Head(nodes)>>
          ELSE LayersOf(ch, ch[Head(nodes)]))
         \o LayersOf(ch, Tail(nodes))

\* node.findLayers() of the root or a group
findLayers(g) == LayersOf(children, children[g])

\* QgsMapLayer.isSpatial(): a table without geometry is not spatial
isSpatial(layer) == ~(layer.kind = "vector" /\ layer.geom = "Null")

\* No custom layer order is set
TreeOrder == [has |-> FALSE, order |-> <<>>]

\* root.layerOrder(): the custom layer order if the project has one, else
\* the spatial layers in the order of the tree
layerOrder ==
    IF customLayerOrder.has THEN customLayerOrder.order
    ELSE SelectSeq(findLayers(Root), LAMBDA l : isSpatial(layers[l]))

Range(s) == { s[i] : i \in 1..Len(s) }

\* The nodes shown in the layer tree view.
TreeNodes == Groups \cup Range(findLayers(Root))

\* What layer_tree.selectedNodes() may return
Selections == { sel \in SUBSET TreeNodes : Cardinality(sel) <= MaxSelected }

\* node.parent() of a layer of the tree
Parent(l) == CHOOSE g \in DOMAIN children : l \in Range(children[g])

\* parent.name(): the root has no name
NodeName(g) == IF g = Root THEN <<>> ELSE groupName[g]

\* The sequence s without the node n
Without(s, n) == SelectSeq(s, LAMBDA x : x # n)

\* One more operation: the last one becomes the previous one.
Step ==
    /\ ops < MaxOps
    /\ ops' = ops + 1
    /\ prev' = Summary(last)

(***************************************************************************)
(* get_selected_layers (modules/general.py)                                *)
(***************************************************************************)

\* selected_layers after the loop over the selected nodes: the layers
\* node.findLayers() gives for a group, the layer of a layer node.
SelectedSet(sel) ==
    UNION { IF n \in Groups THEN Range(findLayers(n)) ELSE {n} : n \in sel }

\* order_map.get(layer.id(), float("inf")): the index of the layer in the
\* layer order; a layer that is not in it gets a key above every index
order_key(l) ==
    IF \E i \in 1..Len(layerOrder) : layerOrder[i] = l
    THEN (CHOOSE i \in 1..Len(layerOrder) :
             layerOrder[i] = l /\ \A j \in i + 1..Len(layerOrder) : layerOrder[j] # l) - 1
    ELSE Len(layerOrder)

\* sorted(iteration, key=order_key): stable, so layers with equal keys keep
\* the order of the iteration
RECURSIVE sorted(_)
sorted(iteration) ==
    IF iteration = <<>> THEN <<>>
    ELSE LET x == iteration[Len(iteration)]
             s == sorted(SubSeq(iteration, 1, Len(iteration) - 1))
         IN SelectSeq(s, LAMBDA e : order_key(e) <= order_key(x))
            \o <<x>>
            \o SelectSeq(s, LAMBDA e : order_key(e) > order_key(x))

\* The members of a set of layers by their number
RECURSIVE ById(_)
ById(S) ==
    IF S = {} THEN <<>>
    ELSE LET m == CHOOSE x \in S : \A y \in S : x <= y
         IN <<m>> \o ById(S \ {m})

\* get_selected_layers when Python iterates over the set selected_layers
\* in the order given
get_selected_layers_iterating(sel, iteration) == sorted(iteration)

\* get_selected_layers: the selected layers sorted by their index in the
\* layer order.  An empty selection raises CustomUserError.  The order in
\* which the set is iterated decides only among layers that are not in the
\* layer order.
get_selected_layers(sel) ==
    get_selected_layers_iterating(sel, ById(SelectedSet(sel)))

(***************************************************************************)
(* rename_layers (modules/rename.py)                                       *)
(***************************************************************************)

\* GEOMETRY_SUFFIX_MAP: "l", "pt", "pg"
GEOMETRY_SUFFIX_MAP ==
    [Line |-> <<108>>, Point |-> <<112, 116>>, Polygon |-> <<112, 103>>]

\* QgsWkbTypes.geometryDisplayString of a geometry type outside the map:
\* "No geometry"
geometryDisplayString(geom) ==
    <<78, 111, 32, 103, 101, 111, 109, 101, 116, 114, 121>>

\* geometry_type_suffix
geometry_type_suffix(layer) ==
    IF layer.kind # "vector" THEN <<>>
    ELSE IF layer.name = Str_polylines \/ EndsWith(layer.name, Str_pl)
    THEN Str_pl
    ELSE <<32, 45, 32>> \o
         (IF layer.geom \in DOMAIN GEOMETRY_SUFFIX_MAP
          THEN GEOMETRY_SUFFIX_MAP[layer.geom]
          ELSE geometryDisplayString(layer.geom))

\* Rename(layer, old_name, new_name) of a rename plan
Rename(layer, old_name, new_name) ==
    [layer |-> layer, old_name |-> old_name, new_name |-> new_name]

\* The layer is in a group: its parent has a name.
in_a_group(l) == NodeName(Parent(l)) # <<>>

\* The exception the loop of prepare_rename_plan raises over the layers
\* to process: fix_layer_name of a group name that does not decode.
prepare_raises(todo) ==
    IF \E i \in 1..Len(todo) :
          in_a_group(todo[i])
          /\ fix_layer_name(NodeName(Parent(todo[i]))).raised # ""
    THEN "UnicodeDecodeError"
    ELSE ""

\* prepare_rename_plan that goes over every layer of the layer tree, not
\* over the selected ones
potential_renames_all(todo) ==
    LET RECURSIVE All(_)
        All(ls) ==
            IF ls = <<>> THEN <<>>
            ELSE LET l == Head(ls)
                     new_name == fix_layer_name(NodeName(Parent(l))).value
                 IN (IF in_a_group(l) /\ new_name # <<>>
                     THEN << Rename(l, layers[l].name, new_name) >>
                     ELSE <<>>)
                    \o All(Tail(ls))
    IN All(findLayers(Root))

\* potential_renames.result of prepare_rename_plan: a Rename for every layer
\* to process that is in a group with a valid name.
RECURSIVE potential_renames(_)
potential_renames(todo) ==
    IF todo = <<>> THEN <<>>
    ELSE LET l == Head(todo)
             new_name == fix_layer_name(NodeName(Parent(l))).value
         IN (IF in_a_group(l) /\ new_name # <<>>
             THEN << Rename(l, layers[l].name, new_name) >>
             ELSE <<>>)
            \o potential_renames(Tail(todo))

\* The skips and errors of prepare_rename_plan
prepare_skips(todo) ==
    LET s == SelectSeq(todo, LAMBDA l : ~in_a_group(l))
    IN [i \in 1..Len(s) |-> Issue(layers[s[i]].name, "not in a group")]

\* The layers of the potential renames that target the name
targets(potential, name) ==
    SelectSeq(potential, LAMBDA r : r.new_name = name)

\* The names the potential renames target
target_names(potential) == { potential[i].new_name : i \in 1..Len(potential) }

\* The orders in which Python may iterate over a set
Orders(S) ==
    { o \in [1..Cardinality(S) -> S] :
        \A i, j \in 1..Cardinality(S) : o[i] = o[j] => i = j }

\* handle_name_collisions raises: layer.featureCount() of a layer that is
\* no vector layer, among the layers of a collision
collisions_raise(potential) ==
    IF \E n \in target_names(potential) :
          /\ Len(targets(potential, n)) > 1
          /\ \E i \in 1..Len(targets(potential, n)) :
                layers[targets(potential, n)[i].layer].kind # "vector"
    THEN "AttributeError"
    ELSE ""

\* The final new name of a layer among several that target the name
final_new_name(l, name) ==
    name \o (IF layers[l].features = 0 THEN <<>>
             ELSE geometry_type_suffix(layers[l]))

\* The part of the rename plan for the layers that target one name
plan_for(potential, name) ==
    LET ts == targets(potential, name)
        final(r) == IF Len(ts) > 1 THEN final_new_name(r.layer, name) ELSE name
        changed == SelectSeq(ts, LAMBDA r : layers[r.layer].name # final(r))
    IN [i \in 1..Len(changed) |->
           Rename(changed[i].layer, layers[changed[i].layer].name,
                  final(changed[i]))]

\* handle_name_collisions, iterating over the set of names in the order given
RECURSIVE handle_name_collisions(_, _)
handle_name_collisions(potential, order) ==
    IF order = <<>> THEN <<>>
    ELSE plan_for(potential, Head(order))
         \o handle_name_collisions(potential, Tail(order))

\* An empty ActionResults
NoResults ==
    [layers |-> layers, processed |-> <<>>, successes |-> <<>>,
     skips |-> <<>>, errors |-> <<>>, result |-> <<>>]

\* execute_rename_plan: the layers and the results after the plan; res.layers
\* are the layers so far.  A rename without old or new name is recorded as
\* an error.
RECURSIVE execute_rename_plan(_, _)
execute_rename_plan(plan, res) ==
    IF plan = <<>> THEN res
    ELSE LET r == Head(plan) IN
         IF r.old_name = <<>> \/ r.new_name = <<>>
         THEN execute_rename_plan(Tail(plan),
                [res EXCEPT !.processed = IF r.old_name # <<>>
                                          THEN Append(@, r.old_name) ELSE @,
                            !.errors = Append(@, Issue(r.old_name, ""))])
         ELSE execute_rename_plan(Tail(plan),
                [res EXCEPT !.layers[r.layer].name = r.new_name,
                            !.processed = Append(@, r.old_name),
                            !.result = Append(@, r),
                            !.successes = Append(@, r.old_name)])

\* json.dumps of the renames with the two names in the other order
json_dumps_swapped(result) ==
    [i \in 1..Len(result) |->
        << result[i].layer, result[i].new_name, result[i].old_name >>]

\* json.dumps of the successful renames: an array [id, old name, new name]
\* for each
json_dumps(result) ==
    [i \in 1..Len(result) |->
        << result[i].layer, result[i].old_name, result[i].new_name >>]

\* The project entry last_rename: not there, or the text written
NoEntry == [found |-> FALSE, text |-> <<>>]
Entry(text) == [found |-> TRUE, text |-> text]

\* rename_layers stores the successful renames, if there are any, in the
\* project entry last_rename; this variant stores them always
written_history_always(result) == Entry(json_dumps(result))

\* rename_layers stores the successful renames, if there are any, in the
\* project entry last_rename
written_history(result) ==
    IF result # <<>> THEN Entry(json_dumps(result)) ELSE history

\* The layers of a sequence of renames
LayersIn(result) == { result[i].layer : i \in 1..Len(result) }

\* The names of the layers, as a function of the layer id
NamesOf(ls) == [l \in DOMAIN ls |-> ls[l].name]

\* rename_layers returned: the state after it and the handler's summary
RenameDone(todo, plan, res) ==
    /\ layers' = res.layers
    /\ history' = written_history(res.result)
    /\ renamed' = [lastCall |-> LayersIn(res.result),
                   lastEffective |-> IF res.result # <<>>
                                     THEN LayersIn(res.result)
                                     ELSE renamed.lastEffective]
    /\ last' = [NoOp EXCEPT !.op = "rename", !.summary = TRUE,
                            !.selected = todo, !.plan = plan,
                            !.processed = res.processed,
                            !.successes = res.successes,
                            !.skips = res.skips, !.errors = res.errors,
                            !.result = res.result]

\* An operation ended with an exception and changed nothing.  The handler
\* suppresses CustomUserError and CustomRuntimeError; any other exception
\* reaches the host.
Raised(op, todo, exception, message) ==
    last' = [NoOp EXCEPT !.op = op, !.raised = exception, !.message = message,
                         !.selected = todo,
                         !.nothing_selected = (message = "No layers or groups selected.")]

\* UTECLayerTools.rename_selected_layers: rename_layers on the selection sel
rename_selected_layers(sel) ==
    \E todo \in {get_selected_layers(sel)} :
    LET potential == potential_renames(todo)
    IN /\ before' = NamesOf(layers)
       /\ Step
       /\ UNCHANGED <<nextId, children, groupName, gpkgExists, tables>>
       /\ IF sel = {}
          THEN /\ Raised("rename", <<>>, "CustomUserError",
                         "No layers or groups selected.")
               /\ UNCHANGED <<layers, history, renamed>>
          ELSE IF prepare_raises(todo) # ""
          THEN /\ Raised("rename", todo, prepare_raises(todo), "")
               /\ UNCHANGED <<layers, history, renamed>>
          ELSE IF collisions_raise(potential) # ""
          THEN /\ Raised("rename", todo, collisions_raise(potential), "")
               /\ UNCHANGED <<layers, history, renamed>>
          ELSE \E order \in Orders(target_names(potential)) :
                 \E plan \in {handle_name_collisions(potential, order)} :
                    \E res \in {execute_rename_plan(plan, NoResults)} :
                       RenameDone(todo, plan, res)

RenameSelectedLayers ==
    /\ ops < MaxOps
    /\ pending = {}
    /\ \E sel \in Selections : rename_selected_layers(sel)
    /\ pending' = pending
    /\ UNCHANGED <<customLayerOrder, indicatorVars>>

(***************************************************************************)
(* undo_rename_layers (modules/rename.py)                                  *)
(***************************************************************************)

\* The loop of undo_rename_layers without the comparison of the layer's
\* name with the new name of the history
RECURSIVE undo_loop_forced(_, _)
undo_loop_forced(last_renames, res) ==
    IF last_renames = <<>> THEN res
    ELSE LET layer_id == Head(last_renames)[1]
             old_name == Head(last_renames)[2]
             new_name == Head(last_renames)[3]
             seen == [res EXCEPT !.processed = Append(@, new_name)]
         IN undo_loop_forced(Tail(last_renames),
              IF layer_id \notin DOMAIN res.layers
              THEN [seen EXCEPT !.errors =
                                   Append(@, Issue(new_name, "not found in project"))]
              ELSE [seen EXCEPT !.layers[layer_id].name = old_name,
                                !.result =
                                   Append(@, Rename(layer_id, new_name, old_name)),
                                !.successes = Append(@, new_name)])

\* The loop of undo_rename_layers over the arrays [id, old name, new name]
\* read back with json.loads; res.layers are the layers so far.
RECURSIVE undo_loop(_, _)
undo_loop(last_renames, res) ==
    IF last_renames = <<>> THEN res
    ELSE LET layer_id == Head(last_renames)[1]
             old_name == Head(last_renames)[2]
             new_name == Head(last_renames)[3]
             seen == [res EXCEPT !.processed = Append(@, new_name)]
         IN undo_loop(Tail(last_renames),
              IF layer_id \notin DOMAIN res.layers
              THEN [seen EXCEPT !.errors =
                                   Append(@, Issue(new_name, "not found in project"))]
              ELSE IF res.layers[layer_id].name # new_name
              THEN [seen EXCEPT !.skips =
                                   Append(@, Issue(old_name, "manually renamed"))]
              ELSE [seen EXCEPT !.layers[layer_id].name = old_name,
                                !.result =
                                   Append(@, Rename(layer_id, new_name, old_name)),
                                !.successes = Append(@, new_name)])

\* undo_rename_layers that leaves the history in the project
cleared_history_kept(res) == history

\* undo_rename_layers removes the history after an undo that reverted or
\* skipped a layer
cleared_history(res) ==
    IF res.successes # <<>> \/ res.skips # <<>> THEN NoEntry ELSE history

\* UTECLayerTools.undo_last_rename: undo_rename_layers
UndoLastRename ==
    /\ ops < MaxOps
    /\ pending = {} /\ pending' = pending
    /\ UNCHANGED <<customLayerOrder, indicatorVars>>
    /\ Step
    /\ UNCHANGED <<nextId, children, groupName, gpkgExists, tables, before,
                   renamed>>
    /\ IF ~history.found
       THEN /\ Raised("undo", <<>>, "CustomRuntimeError",
                      "No rename operation found to undo.")
            /\ UNCHANGED <<layers, history>>
       ELSE \E res \in {undo_loop(history.text, NoResults)} :
               /\ layers' = res.layers
               /\ history' = cleared_history(res)
               /\ last' = [NoOp EXCEPT !.op = "undo", !.summary = TRUE,
                                       !.processed = res.processed,
                                       !.successes = res.successes,
                                       !.skips = res.skips,
                                       !.errors = res.errors,
                                       !.result = res.result]

(***************************************************************************)
(* copy_layers_to_gpkg (modules/geopackage.py)                             *)
(***************************************************************************)

\* A table of the GeoPackage: a vector table with its geometry type or a
\* raster table, the layer whose data it holds and the number of features.
Table(kind, geom, data, features) ==
    [kind |-> kind, geom |-> geom, data |-> data, features |-> features]

\* The characters \s matches
Whitespace == {9, 10, 11, 12, 13, 32}

\* s ends in \s-\s followed by one of the suffixes l, pt, pg, pl: the length
\* of that ending, or 0
SuffixLen(s) ==
    LET n == Len(s) IN
    IF /\ n >= 5
       /\ s[n - 4] \in Whitespace /\ s[n - 3] = 45 /\ s[n - 2] \in Whitespace
       /\ <<s[n - 1], s[n]>> \in
             {GEOMETRY_SUFFIX_MAP.Point, GEOMETRY_SUFFIX_MAP.Polygon, <<112, 108>>}
    THEN 5
    ELSE IF /\ n >= 4
            /\ s[n - 3] \in Whitespace /\ s[n - 2] = 45 /\ s[n - 1] \in Whitespace
            /\ <<s[n]>> = GEOMETRY_SUFFIX_MAP.Line
    THEN 4
    ELSE 0

\* re.sub(rf"\s-\s({suffix_values})$", "", layer_name); $ also matches
\* before a newline that ends the name
strip_suffix(s) ==
    IF SuffixLen(s) > 0 THEN SubSeq(s, 1, Len(s) - SuffixLen(s))
    ELSE IF s # <<>> /\ s[Len(s)] = 10 /\ SuffixLen(SubSeq(s, 1, Len(s) - 1)) > 0
    THEN SubSeq(s, 1, Len(s) - 1 - SuffixLen(SubSeq(s, 1, Len(s) - 1))) \o <<10>>
    ELSE s

\* QgsVectorLayer(f"{gpkg_path}|layername={name}", name, "ogr").isValid()
vector_table(tbls, name) == name \in DOMAIN tbls /\ tbls[name].kind = "vector"

\* QgsRasterLayer(f"GPKG:{gpkg_path}:{name}", name, "gdal").isValid()
raster_table(tbls, name) == name \in DOMAIN tbls /\ tbls[name].kind = "raster"

\* check_existing_layer: the name the layer gets in the GeoPackage
check_existing_layer(layer, existing_layers, tbls) ==
    IF layer.kind # "vector" THEN layer.name
    ELSE IF layer.name \notin existing_layers THEN layer.name
    ELSE IF vector_table(tbls, layer.name) /\ tbls[layer.name].geom = layer.geom
    THEN layer.name
    ELSE strip_suffix(layer.name) \o geometry_type_suffix(layer)

\* "url=" in layer.source()
is_web_service(layer) == layer.src.type = "web"

\* _get_gpkg_layer_dependencies: the tables of the GeoPackage that layers
\* of the project use as their data source
dependencies == { layers[l].src.table : l \in { k \in DOMAIN layers : layers[k].src.type = "gpkg" } }

\* _confirm_overwrites asks: a table that will be overwritten is in use
used_overwrites(todo, existing_layers) ==
    { check_existing_layer(layers[todo[i]], existing_layers, tables) :
         i \in { k \in 1..Len(todo) : ~is_web_service(layers[todo[k]]) } }
    \cap existing_layers \cap dependencies

\* The table with that name is set to t
PutTable(tbls, name, t) ==
    [n \in DOMAIN tbls \cup {name} |-> IF n = name THEN t ELSE tbls[n]]

\* The table with that name is dropped
DropTable(tbls, name) == [n \in DOMAIN tbls \ {name} |-> tbls[n]]

\* A table that was there is replaced or dropped for a layer
Replaced(tbls, name, l, how) ==
    IF name \in DOMAIN tbls
    THEN {[table |-> name, was |-> tbls[name], by |-> layers[l], how |-> how,
           old |-> name \in DOMAIN tables]}
    ELSE {}

\* The state of add_layers_to_gpkg before its loop
NoneAdded ==
    [tbls |-> tables, existing |-> DOMAIN tables, mapping |-> <<>>,
     processed |-> <<>>, successes |-> <<>>, skips |-> <<>>, errors |-> <<>>,
     replaced |-> {}]

\* The loop of add_layers_to_gpkg over the layers; the writer fails for the
\* layers in fails.
RECURSIVE add_layers_to_gpkg(_, _, _)
add_layers_to_gpkg(todo, fails, st) ==
    IF todo = <<>> THEN st
    ELSE LET l == Head(todo)
             layer == layers[l]
             layer_name == check_existing_layer(layer, st.existing, st.tbls)
             seen == [st EXCEPT !.processed = Append(@, layer.name)]
             stored(s, t, how) ==
                 [s EXCEPT !.tbls = PutTable(@, layer_name, t),
                           !.existing = @ \cup {layer_name},
                           !.successes = Append(@, layer_name),
                           !.mapping = Append(@, <<l, layer_name>>),
                           !.replaced = @ \cup Replaced(st.tbls, layer_name, l, how)]
         IN add_layers_to_gpkg(Tail(todo), fails,
              IF is_web_service(layer)
              THEN [seen EXCEPT !.mapping = Append(@, <<l, layer.name>>),
                                !.skips = Append(@, Issue(layer.name, "web service"))]
              ELSE IF layer.kind = "vector"
              THEN IF l \in fails
                   THEN [seen EXCEPT !.errors =
                            Append(@, Issue(layer.name, "Failed to add vector layer"))]
                   ELSE stored(seen, Table("vector", layer.geom, l, layer.features),
                               "overwritten")
              ELSE IF layer.kind = "raster"
              THEN IF l \in fails
                   THEN [seen EXCEPT
                           !.tbls = DropTable(@, layer_name),
                           !.replaced = @ \cup Replaced(st.tbls, layer_name, l, "dropped"),
                           !.errors =
                              Append(@, Issue(layer_name, "Failed to add raster layer"))]
                   ELSE stored(seen, Table("raster", "NA", l, 0), "dropped")
              ELSE [seen EXCEPT !.errors =
                       Append(@, Issue(layer_name, "Unsupported layer type"))])

\* QgsLayerTreeGroup.insertLayer that puts the layer below the others
insertLayer_last(nodes, index, l) == Append(nodes, l)

\* QgsLayerTreeGroup.insertLayer(index, layer) on the child nodes
insertLayer(nodes, index, l) ==
    SubSeq(nodes, 1, index) \o <<l>> \o SubSeq(nodes, index + 1, Len(nodes))

\* project.addMapLayer that also points the layer l the copy was made of
\* to the copy's data source
addMapLayer_moved(ls, id, gpkg_layer, l) ==
    [k \in DOMAIN ls \cup {id} |->
        IF k = id THEN gpkg_layer
        ELSE IF k = l THEN [ls[k] EXCEPT !.src = gpkg_layer.src]
        ELSE ls[k]]

\* project.addMapLayer(gpkg_layer, addToLegend=False): the project gets one
\* more layer; the layer l the copy was made of stays as it is
addMapLayer(ls, id, gpkg_layer, l) ==
    [k \in DOMAIN ls \cup {id} |-> IF k = id THEN gpkg_layer ELSE ls[k]]

\* The state of add_layers_from_gpkg_to_project before its loop
NoneBack(tbls) ==
    [tbls |-> tbls, layers |-> layers, root |-> children[Root],
     new |-> <<>>, id |-> nextId,
     processed |-> <<>>, successes |-> <<>>, skips |-> <<>>, errors |-> <<>>]

\* The loop of add_layers_from_gpkg_to_project over the pairs (layer, name
\* in the GeoPackage); a new layer is inserted at index 0 of the root
RECURSIVE add_layers_from_gpkg_to_project(_, _)
add_layers_from_gpkg_to_project(mapping, st) ==
    IF mapping = <<>> THEN st
    ELSE LET layer_to_find == layers[Head(mapping)[1]]
             layer_name == Head(mapping)[2]
             seen == [st EXCEPT !.processed = Append(@, layer_name)]
             added(new) ==
                 [seen EXCEPT !.layers = addMapLayer(@, st.id, new, Head(mapping)[1]),
                              !.root = insertLayer(@, 0, st.id),
                              !.new = Append(@, st.id),
                              !.id = @ + 1,
                              !.successes = Append(@, layer_name)]
             missing == [seen EXCEPT !.errors =
                            Append(@, Issue(layer_name, "not found in GeoPackage"))]
         IN add_layers_from_gpkg_to_project(Tail(mapping),
              IF is_web_service(layer_to_find)
              THEN IF \E k \in DOMAIN st.layers :
                         /\ st.layers[k].src = layer_to_find.src
                         /\ st.layers[k].name = layer_name
                   THEN [seen EXCEPT !.skips =
                            Append(@, Issue(layer_name, "already exists"))]
                   ELSE added([layer_to_find EXCEPT !.name = layer_name])
              ELSE IF layer_to_find.kind = "raster"
              THEN IF raster_table(st.tbls, layer_name)
                   THEN added(Layer(layer_name, "raster", "NA", 0,
                                    GpkgSource(layer_name)))
                   ELSE missing
              ELSE IF vector_table(st.tbls, layer_name)
                   THEN added(Layer(layer_name, "vector",
                                    st.tbls[layer_name].geom,
                                    st.tbls[layer_name].features,
                                    GpkgSource(layer_name)))
                   ELSE missing)

\* copy_layers_to_gpkg after the overwrite warning: the layers are written
\* to the GeoPackage and those written are loaded back into the project.
copy_layers_to_gpkg(todo, fails) ==
    LET added == add_layers_to_gpkg(todo, fails, NoneAdded)
        back == add_layers_from_gpkg_to_project(added.mapping, NoneBack(added.tbls))
    IN [tbls |-> added.tbls, layers |-> back.layers, id |-> back.id,
        root |-> back.root, new |-> back.new, replaced |-> added.replaced,
        processed |-> added.processed, successes |-> back.successes,
        skips |-> added.skips \o back.skips,
        errors |-> added.errors \o back.errors]

\* _confirm_overwrites that does not wait for the answer
confirm_overwrites_always(todo, yes) == TRUE

\* _confirm_overwrites: go on if no table in use will be overwritten, or if
\* the user answers the warning with yes
confirm_overwrites(todo, yes) ==
    used_overwrites(todo, DOMAIN tables) = {} \/ yes

\* UTECLayerTools.copy_selected_layers: copy_layers_to_gpkg on the selection
\* sel; the user answers the overwrite warning, if it is shown, with yes or
\* no, and the writer fails for the layers in fails.
copy_selected_layers(sel, yes, fails) ==
    \E todo \in {get_selected_layers(sel)} :
    LET asked == used_overwrites(todo, DOMAIN tables) # {}
        answer == IF ~asked THEN "" ELSE IF yes THEN "yes" ELSE "no"
    IN /\ Step
       /\ gpkgExists' = TRUE
       /\ UNCHANGED <<groupName, history, before, renamed>>
       /\ IF sel = {}
          THEN /\ ~yes /\ fails = {}
               /\ Raised("copy", <<>>, "CustomUserError",
                         "No layers or groups selected.")
               /\ UNCHANGED <<layers, nextId, children, tables>>
          ELSE /\ asked \/ ~yes
               /\ IF ~confirm_overwrites(todo, yes)
                  THEN /\ fails = {}
                       /\ last' = [NoOp EXCEPT
                              !.op = "copy", !.summary = TRUE,
                              !.selected = todo, !.asked = asked,
                              !.answer = answer,
                              !.errors = << Issue("User Cancelled", "cancelled by user") >>]
                       /\ UNCHANGED <<layers, nextId, children, tables>>
                  ELSE \E r \in {copy_layers_to_gpkg(todo, fails)} :
                         /\ r.id <= MaxLayers + 1
                         /\ tables' = r.tbls
                         /\ layers' = r.layers
                         /\ nextId' = r.id
                         /\ children' = [children EXCEPT ![Root] = r.root]
                         /\ last' = [NoOp EXCEPT
                                !.op = "copy", !.summary = TRUE,
                                !.selected = todo, !.asked = asked,
                                !.answer = answer,
                                !.processed = r.processed,
                                !.successes = r.successes,
                                !.skips = r.skips,
                                !.errors = r.errors,
                                !.replaced = r.replaced,
                                !.added = r.new]

CopySelectedLayers ==
    /\ ops < MaxOps
    /\ pending = {} /\ pending' = pending
    /\ UNCHANGED <<customLayerOrder, indicatorVars>>
    /\ \E sel \in Selections :
        \E fails \in SUBSET SelectedSet(sel), yes \in BOOLEAN :
            /\ Cardinality(fails) <= MaxFailures
            /\ copy_selected_layers(sel, yes, fails)

\* UTECLayerTools.rename_and_copy_layers, first half: rename_layers on the
\* selection.  An exception ends the handler; otherwise copy_layers_to_gpkg
\* is still to run on the same selection.
RenameAndCopyLayers ==
    /\ ops < MaxOps
    /\ pending = {}
    /\ \E sel \in Selections :
          /\ rename_selected_layers(sel)
          /\ pending' = IF last'.raised = "" THEN {sel} ELSE {}
    /\ UNCHANGED <<customLayerOrder, indicatorVars>>

\* UTECLayerTools.rename_and_copy_layers, second half: copy_layers_to_gpkg
\* on the selection, then the summary of both
CopyRenamedLayers ==
    /\ ops < MaxOps
    /\ \E sel \in pending :
        \E fails \in SUBSET SelectedSet(sel), yes \in BOOLEAN :
            /\ Cardinality(fails) <= MaxFailures
            /\ copy_selected_layers(sel, yes, fails)
    /\ pending' = {}
    /\ UNCHANGED <<customLayerOrder, indicatorVars>>

(***************************************************************************)
(* The location of a layer (modules/layer_location.py)                     *)
(***************************************************************************)

\* QgsMapLayer.source()
source(layer) == layer.src.uri

\* decodeUri(...).get("path", ""): the file of a file-based source
decoded_path(layer) ==
    IF layer.src.type \in {"file", "gpkg"} THEN BeforeBar(source(layer))
    ELSE <<>>

\* get_layer_source_path: None for a memory layer, else the path
get_layer_source_path(layer) ==
    LET uri_path(decoded) ==
            IF decoded # <<>> THEN decoded ELSE BeforeBar(source(layer))
    IN IF StartsWith(source(layer), Str_memory)
       THEN [none |-> TRUE, path |-> <<>>]
       ELSE [none |-> FALSE, path |-> normcase(uri_path(decoded_path(layer)))]

\* is_cloud_layer: "url" is a key of the decoded uri of a web service
is_cloud_layer(layer) ==
    \/ layer.src.type = "web"
    \/ Contains(Lower(source(layer)), Str_url)
    \/ StartsWith(Lower(source(layer)), Str_http)
    \/ StartsWith(Lower(source(layer)), Str_https)

\* The end of get_layer_location: the path of the layer is compared
\* with the GeoPackage and the folder of the project
located(layer_path, gpkg, project_folder) ==
    IF Contains(layer_path, gpkg) THEN "GPKG_PROJECT"
    ELSE IF Contains(layer_path, project_folder)
    THEN (IF EndsWith(layer_path, Str_dot_gpkg)
             \/ EndsWith(layer_path, Str_dot_sqlite)
          THEN "GPKG_FOLDER" ELSE "FOLDER_NO_GPKG")
    ELSE "EXTERNAL"

\* get_layer_location: a LayerLocation, or "None"
get_layer_location(layer) ==
    IF fileName = <<>> \/ StartsWith(source(layer), Str_memory) THEN "None"
    ELSE IF is_cloud_layer(layer) THEN "CLOUD"
    ELSE located(get_layer_source_path(layer).path,
                 normcase(project_gpkg),
                 normcase(PathParent(project_gpkg)))

(***************************************************************************)
(* LocationIndicatorManager (modules/layer_location.py)                    *)
(***************************************************************************)

\* is_empty_layer (modules/general.py): a vector layer without features
is_empty_layer(layer) == layer.kind = "vector" /\ layer.features = 0

\* d[k] = v and del d[k] on a dictionary
SetItem(d, k, v) == [x \in DOMAIN d \cup {k} |-> IF x = k THEN v ELSE d[x]]
DelItem(d, k) == [x \in DOMAIN d \ {k} |-> d[x]]

\* a < b for two strings
StrLess(a, b) ==
    \E i \in 1..Len(b) :
        /\ \A j \in 1..(i - 1) : j <= Len(a) /\ a[j] = b[j]
        /\ (i > Len(a) \/ a[i] < b[i])

\* None as the multi_info of a layer, and as a node
NoMulti == [idx |-> -1, names |-> <<>>]
NoNode == 0

\* root.findLayer(lid): the node of the layer, None if it is not in the tree
findLayer(l) ==
    IF l \in DOMAIN node /\ l \in Range(findLayers(Root)) THEN node[l]
    ELSE NoNode

\* view.addIndicator(node, indicator)
addIndicator(v, n, indicator) ==
    SetItem(v, n, (IF n \in DOMAIN v THEN v[n] ELSE <<>>) \o <<indicator>>)

\* view.removeIndicator(node, indicator)
removeIndicator(v, n, indicator) ==
    IF n \notin DOMAIN v THEN v
    ELSE LET rest == SelectSeq(v[n], LAMBDA x : x # indicator)
         IN IF rest = <<>> THEN DelItem(v, n) ELSE SetItem(v, n, rest)

\* The manager and the view it decorates, as the methods below change them;
\* raised is the exception a method ended with.
Manager ==
    [view |-> view, nextObject |-> nextObject,
     location_indicators |-> location_indicators,
     layer_locations |-> layer_locations,
     editingStopped |-> editingStopped, raised |-> ""]

\* _get_visible_layer_ids: the layers of the tree
get_visible_layer_ids == Range(findLayers(Root)) \cap DOMAIN layers

\* The key of a layer in source_map: (path, layer_name)
source_key(layer) == <<get_layer_source_path(layer).path, layer.src.table>>

\* Keys are sorted as tuples of strings
KeyLess(k1, k2) ==
    StrLess(k1[1], k2[1]) \/ (k1[1] = k2[1] /\ StrLess(k1[2], k2[2]))

\* sorted(layer.name() for layer in layers), for a set of layers
RECURSIVE sorted_names(_)
sorted_names(S) ==
    IF S = {} THEN <<>>
    ELSE LET l == CHOOSE x \in S :
                    \A y \in S : ~StrLess(layers[y].name, layers[x].name)
         IN <<layers[l].name>> \o sorted_names(S \ {l})

\* _calculate_shared_groups: the layers that share their source (file and
\* table) with another layer get the index of the source among the shared
\* sources and the sorted names of the layers on it
calculate_shared_groups(visible_layer_ids) ==
    LET mapped == { l \in visible_layer_ids :
                      /\ ~get_layer_source_path(layers[l]).none
                      /\ get_layer_source_path(layers[l]).path # <<>>
                      /\ ~is_cloud_layer(layers[l]) }
        on(k) == { l \in mapped : source_key(layers[l]) = k }
        shared == { k \in { source_key(layers[l]) : l \in mapped } :
                      Cardinality(on(k)) > 1 }
    IN [l \in { x \in mapped : source_key(layers[x]) \in shared } |->
          [idx |-> Cardinality({ k \in shared :
                                   KeyLess(k, source_key(layers[l])) }),
           names |-> sorted_names(on(source_key(layers[l])))]]

\* self.shared_groups.get(lid)
multi_info_of(groups, l) == IF l \in DOMAIN groups THEN groups[l] ELSE NoMulti

\* ICONS.get_multi_icon(idx): the class Icons (modules/constants.py) has no
\* attribute get_multi_icon
get_multi_icon(idx) == "AttributeError"

\* A new indicator of a kind on the node n
NewIndicator(m, n, kind) ==
    [m EXCEPT !.view = addIndicator(@, n, [id |-> m.nextObject, kind |-> kind]),
              !.nextObject = @ + 1]

\* _add_empty_indicator
add_empty_indicator(m, l, n) ==
    IF is_empty_layer(layers[l]) THEN NewIndicator(m, n, "EMPTY") ELSE m

\* _add_location_indicator
add_location(m, n, location) ==
    IF location # "None" THEN NewIndicator(m, n, location) ELSE m

\* _add_multi_indicator: setIcon(ICONS.get_multi_icon(idx)) comes before
\* view.addIndicator
add_multi_indicator(m, multi_info) ==
    IF multi_info = NoMulti THEN m
    ELSE [m EXCEPT !.raised = get_multi_icon(multi_info.idx)]

\* The indicators the node n has in the view v after the first had ones
Added(v, n, had) ==
    IF n \in DOMAIN v THEN SubSeq(v[n], had + 1, Len(v[n])) ELSE <<>>

\* add_location_indicator: the 'empty' indicator, the location indicator
\* and the indicator of a shared source, in this order; it returns the
\* indicators it added to the node
add_location_indicator(m, l, multi_info) ==
    LET done(n, had, after) ==
            [m |-> after, indicators |-> Added(after.view, n, had)]
    IN IF findLayer(l) = NoNode THEN [m |-> m, indicators |-> <<>>]
       ELSE done(findLayer(l),
                 Len(Added(m.view, findLayer(l), 0)),
                 add_multi_indicator(
                     add_location(add_empty_indicator(m, l, findLayer(l)),
                                  findLayer(l),
                                  get_layer_location(layers[l])),
                     multi_info))

\* _connect_layer_signals: one more handler on editingStopped of a vector
\* layer
connect_layer_signals(m, l) ==
    IF layers[l].kind = "vector"
    THEN [m EXCEPT !.editingStopped[l] = @ + 1]
    ELSE m

\* _layer_location_cache
layer_location_cache(m, indicators, l, groups) ==
    connect_layer_signals(
        [m EXCEPT !.location_indicators = SetItem(@, l, indicators),
                  !.layer_locations =
                      SetItem(@, l, <<get_layer_location(layers[l]),
                                      findLayer(l), multi_info_of(groups, l)>>)],
        l)

\* _add_indicator_for_layer
add_indicator_for_layer(m, l, groups) ==
    LET cached(r) ==
            IF r.m.raised # "" THEN r.m
            ELSE IF r.indicators # <<>>
            THEN layer_location_cache(r.m, r.indicators, l, groups)
            ELSE r.m
    IN IF l \in DOMAIN m.location_indicators THEN m
       ELSE cached(add_location_indicator(m, l, multi_info_of(groups, l)))

\* The indicators of a sequence removed from the node n of the view
RECURSIVE removeIndicators(_, _, _)
removeIndicators(v, n, indicators) ==
    IF indicators = <<>> THEN v
    ELSE removeIndicators(removeIndicator(v, n, Head(indicators)), n,
                          Tail(indicators))

\* _remove_indicator_for_layer
remove_indicator_for_layer(m, l) ==
    IF l \notin DOMAIN m.location_indicators THEN m
    ELSE [m EXCEPT
            !.view = IF findLayer(l) # NoNode
                     THEN removeIndicators(@, findLayer(l),
                                           m.location_indicators[l])
                     ELSE @,
            !.location_indicators = DelItem(@, l),
            !.layer_locations = DelItem(@, l)]

\* The body of the loop of _update_indicators_for_visible_layers, from
\* the comparison with the cached state on
update_changed_layer(m, l, groups, new_location, layer_node, multi_info, cached) ==
    IF /\ new_location = cached[1]
       /\ layer_node = cached[2]
       /\ multi_info = cached[3]
       /\ (l \in DOMAIN m.location_indicators \/ new_location = "None")
    THEN m
    ELSE IF new_location # "None" \/ is_empty_layer(layers[l])
    THEN add_indicator_for_layer(remove_indicator_for_layer(m, l), l, groups)
    ELSE [remove_indicator_for_layer(m, l) EXCEPT
            !.layer_locations =
                SetItem(@, l, <<"None", layer_node, multi_info>>)]

\* The body of the loop of _update_indicators_for_visible_layers
update_visible_layer(m, l, groups) ==
    update_changed_layer(m, l, groups, get_layer_location(layers[l]),
                         findLayer(l), multi_info_of(groups, l),
                         IF l \in DOMAIN m.layer_locations
                         THEN m.layer_locations[l]
                         ELSE <<"None", NoNode, NoMulti>>)

\* _update_indicators_for_visible_layers, over the visible layers in the
\* order the set is iterated in; an exception ends the loop
RECURSIVE update_indicators_for_visible_layers(_, _, _)
update_indicators_for_visible_layers(m, order, groups) ==
    IF order = <<>> \/ m.raised # "" THEN m
    ELSE update_indicators_for_visible_layers(
             update_visible_layer(m, Head(order), groups), Tail(order), groups)

\* _cleanup_deleted_layer: the entries of a layer that is gone
cleanup_deleted_layer(m, l) ==
    [m EXCEPT
       !.view = IF findLayer(l) # NoNode
                THEN removeIndicators(@, findLayer(l), m.location_indicators[l])
                ELSE @,
       !.location_indicators = DelItem(@, l),
       !.layer_locations = DelItem(@, l)]

\* _cleanup_removed_layers
RECURSIVE cleanup_removed_layers(_, _)
cleanup_removed_layers(m, visible_layer_ids) ==
    LET gone == DOMAIN m.location_indicators \ visible_layer_ids
    IN IF gone = {} THEN m
       ELSE LET l == CHOOSE x \in gone : TRUE
            IN cleanup_removed_layers(
                   IF l \in DOMAIN layers
                   THEN remove_indicator_for_layer(m, l)
                   ELSE cleanup_deleted_layer(m, l),
                   visible_layer_ids)

\* _update_all_location_indicators, the visible layers iterated in order
update_all_location_indicators(m, order) ==
    LET cleaned(updated) ==
            IF updated.raised # "" THEN updated
            ELSE cleanup_removed_layers(updated, get_visible_layer_ids)
    IN cleaned(update_indicators_for_visible_layers(
                   m, order, calculate_shared_groups(get_visible_layer_ids)))

\* _update_indicator_for_layer
update_indicator_for_layer(m, l) ==
    IF l \notin DOMAIN layers THEN m
    ELSE add_indicator_for_layer(remove_indicator_for_layer(m, l), l,
                                 shared_groups)

\* The indicators of the layers of the set S removed from their nodes
RECURSIVE removeIndicatorsOf(_, _, _)
removeIndicatorsOf(v, indicators, S) ==
    IF S = {} THEN v
    ELSE LET l == CHOOSE x \in S : TRUE
         IN removeIndicatorsOf(
                IF findLayer(l) # NoNode
                THEN removeIndicators(v, findLayer(l), indicators[l]) ELSE v,
                indicators, S \ {l})

\* _clear_all_location_indicators: nothing if it holds no indicator
clear_all_location_indicators(m) ==
    IF DOMAIN m.location_indicators = {} THEN m
    ELSE [m EXCEPT
            !.view = removeIndicatorsOf(@, m.location_indicators,
                                        DOMAIN m.location_indicators),
            !.location_indicators = << >>,
            !.layer_locations = << >>]

\* The signals init_indicators connects handlers to, and those of the tree
\* models among them
TreeSignals ==
    {"modelReset", "rowsMoved", "rowsInserted", "rowsRemoved", "layoutChanged"}
Signals ==
    TreeSignals \cup {"initializationCompleted", "layerWillBeRemoved", "timeout"}

\* The manager and the view become m.
Becomes(m) ==
    /\ view' = m.view
    /\ nextObject' = m.nextObject
    /\ location_indicators' = m.location_indicators
    /\ layer_locations' = m.layer_locations
    /\ editingStopped' = m.editingStopped

\* What the actions below leave alone of the project and of the plugin
projectVars ==
    <<nextId, groupName, history, gpkgExists, tables, before, renamed,
      customLayerOrder, pending, fileName, os_name>>

\* The plugin is loaded or unloaded: this happens once and is not counted
\* with the operations.
Lifecycle ==
    /\ ops' = ops
    /\ prev' = Summary(last)

\* A full update, the set of the visible layers iterated in some order
FullUpdate(op) ==
    \E order \in Orders(get_visible_layer_ids) :
       \E m \in {update_all_location_indicators(Manager, order)} :
          /\ Becomes(m)
          /\ shared_groups' = calculate_shared_groups(get_visible_layer_ids)
          /\ last' = [NoOp EXCEPT !.op = op, !.raised = m.raised]

\* UTECLayerTools.initGui: init_indicators of a new manager.  The first
\* full update comes before the handlers are connected.
InitIndicators ==
    /\ lifecycle = "new"
    /\ lifecycle' = "loaded"
    /\ Lifecycle
    /\ FullUpdate("init_indicators")
    /\ connected' = IF last'.raised = "" THEN Signals ELSE {}
    /\ UNCHANGED <<layers, children, node, update_timer, singleShots,
                   projectVars>>

\* _on_project_read, on initializationCompleted: the host emits the signal
\* once, when it has started and loaded its plugins
OnProjectRead ==
    /\ "initializationCompleted" \in connected
    /\ last.op = "init_indicators"
    /\ Step
    /\ FullUpdate("_on_project_read")
    /\ UNCHANGED <<layers, children, node, update_timer, singleShots,
                   connected, lifecycle, projectVars>>

\* A tree model emits layoutChanged and the tree is as before:
\* _tree_change_handler starts the timer.
LayoutChanged ==
    /\ "layoutChanged" \in connected
    /\ ~update_timer
    /\ update_timer' = TRUE
    /\ UNCHANGED <<layers, children, node, view, nextObject,
                   location_indicators, layer_locations, shared_groups,
                   singleShots, connected, editingStopped, lifecycle,
                   projectVars, prev, ops, last>>

\* _on_layer_tree_model_reset, when the timer runs out
OnLayerTreeModelReset ==
    /\ update_timer
    /\ "timeout" \in connected
    /\ update_timer' = FALSE
    /\ Step
    /\ FullUpdate("_on_layer_tree_model_reset")
    /\ UNCHANGED <<layers, children, node, singleShots, connected, lifecycle,
                   projectVars>>

\* The call QTimer.singleShot(0, ...) queued by _on_layer_modified runs:
\* _update_indicator_for_layer
SingleShot ==
    /\ singleShots # <<>>
    /\ singleShots' = Tail(singleShots)
    /\ Step
    /\ \E m \in {update_indicator_for_layer(Manager, Head(singleShots))} :
          /\ Becomes(m)
          /\ last' = [NoOp EXCEPT !.op = "_update_indicator_for_layer",
                                  !.nodes = {Head(singleShots)},
                                  !.raised = m.raised]
    /\ UNCHANGED <<layers, children, node, shared_groups, update_timer,
                   connected, lifecycle, projectVars>>

\* LocationIndicatorManager.unload, called by UTECLayerTools.unload
Unload ==
    /\ lifecycle = "loaded"
    /\ lifecycle' = "unloaded"
    /\ Lifecycle
    /\ Becomes([clear_all_location_indicators(Manager) EXCEPT
                  !.editingStopped = [l \in DOMAIN @ |-> 0]])
    /\ update_timer' = FALSE
    /\ connected' = {}
    /\ last' = [NoOp EXCEPT !.op = "unload"]
    /\ UNCHANGED <<layers, children, node, shared_groups, singleShots,
                   projectVars>>

(***************************************************************************)
(* What the user does in the host application                              *)
(***************************************************************************)

\* The user renames a layer by hand.
UserRenameLayer ==
    /\ ops < MaxOps
    /\ pending = {} /\ pending' = pending
    /\ UNCHANGED <<customLayerOrder, indicatorVars>>
    /\ \E l \in DOMAIN layers, n \in UserNames :
          /\ layers[l].name # n
          /\ layers' = [layers EXCEPT ![l].name = n]
    /\ Step
    /\ last' = [NoOp EXCEPT !.op = "user rename"]
    /\ UNCHANGED <<nextId, children, groupName, history, gpkgExists, tables,
                   before, renamed>>

\* _on_layer_removed, on layerWillBeRemoved
on_layer_removed(m, l) ==
    IF l \notin DOMAIN m.location_indicators THEN m
    ELSE remove_indicator_for_layer(
             IF layers[l].kind = "vector" /\ l \in DOMAIN m.editingStopped
             THEN [m EXCEPT !.editingStopped[l] = 0] ELSE m, l)

\* A row of the layer tree was inserted, removed or moved: the timer
\* starts if the handler is connected
TreeChanged ==
    update_timer' = (update_timer \/ (TreeSignals \cap connected # {}))

\* The user removes a layer from the project, and with it from the layer
\* tree; the project emits layerWillBeRemoved before.
UserRemoveLayer ==
    /\ ops < MaxOps
    /\ pending = {} /\ pending' = pending
    /\ \E l \in DOMAIN layers :
          /\ layers' = [k \in DOMAIN layers \ {l} |-> layers[k]]
          /\ children' = [g \in DOMAIN children |-> Without(children[g], l)]
          /\ customLayerOrder' = [customLayerOrder EXCEPT !.order = Without(@, l)]
          /\ \E m \in {IF "layerWillBeRemoved" \in connected
                         THEN on_layer_removed(Manager, l) ELSE Manager} :
                Becomes([m EXCEPT
                           !.view = IF l \in DOMAIN node
                                    THEN DelItem(@, node[l]) ELSE @,
                           !.editingStopped = DelItem(@, l)])
          /\ node' = DelItem(node, l)
    /\ TreeChanged
    /\ Step
    /\ last' = [NoOp EXCEPT !.op = "user remove"]
    /\ UNCHANGED <<nextId, groupName, history, gpkgExists, tables, before,
                   renamed, fileName, os_name, shared_groups, singleShots,
                   connected, lifecycle>>

\* What the user did before the plugin was loaded is part of the project
\* at the start.  The user drags a layer to the top of the layer tree: the
\* tree gets a new node for the layer, and the old node goes with its
\* indicators.
UserMoveLayer ==
    /\ lifecycle # "new"
    /\ Step
    /\ \E l \in Range(findLayers(Root)) :
          /\ children' = [g \in DOMAIN children |->
                            IF g = Root THEN <<l>> \o Without(children[g], l)
                            ELSE Without(children[g], l)]
          /\ node' = [node EXCEPT ![l] = nextObject]
          /\ view' = DelItem(view, node[l])
    /\ nextObject' = nextObject + 1
    /\ TreeChanged
    /\ last' = [NoOp EXCEPT !.op = "user move"]
    /\ UNCHANGED <<layers, location_indicators, layer_locations,
                   shared_groups, singleShots, connected, editingStopped,
                   lifecycle, projectVars>>

\* The user duplicates a layer: the copy reads the same source and lies at
\* the top of the layer tree.
UserDuplicateLayer ==
    /\ lifecycle # "new"
    /\ Step
    /\ nextId <= MaxLayers
    /\ nextId' = nextId + 1
    /\ \E l \in DOMAIN layers :
          layers' = SetItem(layers, nextId, layers[l])
    /\ children' = [children EXCEPT ![Root] = <<nextId>> \o @]
    /\ node' = SetItem(node, nextId, nextObject)
    /\ nextObject' = nextObject + 1
    /\ editingStopped' = SetItem(editingStopped, nextId, 0)
    /\ TreeChanged
    /\ last' = [NoOp EXCEPT !.op = "user duplicate"]
    /\ UNCHANGED <<view, location_indicators, layer_locations, shared_groups,
                   singleShots, connected, lifecycle, groupName, history,
                   gpkgExists, tables, before, renamed, customLayerOrder,
                   pending, fileName, os_name>>

\* The copies of l that n handlers of editingStopped queue
Queued(l, n) == [i \in 1..n |-> l]

\* The user ends the editing of a vector layer, with or without features
\* in it: every handler connected to editingStopped runs
\* _on_layer_modified, which queues _update_indicator_for_layer.
UserStopEditing ==
    /\ lifecycle # "new"
    /\ Step
    /\ \E l \in DOMAIN layers, f \in {0, 1} :
          /\ layers[l].kind = "vector"
          /\ layers[l].src.type # "web"
          /\ layers' = [layers EXCEPT ![l].features = f]
          /\ singleShots' = singleShots \o Queued(l, editingStopped[l])
          /\ last' = [NoOp EXCEPT !.op = "user edit", !.nodes = {l}]
    /\ UNCHANGED <<children, node, view, nextObject, location_indicators,
                   layer_locations, shared_groups, update_timer, connected,
                   editingStopped, lifecycle, projectVars>>

(***************************************************************************)
(* The project at the start                                                *)
(***************************************************************************)

\* The project is saved and the plugin has not set up its indicators.
NoIndicators ==
    /\ fileName = Path_project
    /\ os_name = "posix"
    /\ node = [l \in DOMAIN layers |-> l]
    /\ view = << >>
    /\ nextObject = InitLayers + 1
    /\ location_indicators = << >>
    /\ layer_locations = << >>
    /\ shared_groups = << >>
    /\ update_timer = FALSE
    /\ singleShots = <<>>
    /\ connected = {}
    /\ editingStopped = [l \in DOMAIN layers |-> 0]
    /\ lifecycle = "new"

\* The layers a project starts with: layer i is one of these.
InitLayerChoices(i) ==
    IF i % 2 = 1
    THEN { Layer(Str_a, "vector", "Point", f, FileSource) : f \in {0, 1} }
    ELSE { Layer(Str_a, "vector", "Line", 1, FileSource),
           Layer(Str_a, "vector", "Line", 0, FileSource),
           Layer(Str_polylines, "vector", "Line", 1, FileSource),
           Layer(Str_a, "raster", "NA", 0, FileSource),
           Layer(Str_a, "vector", "Polygon", 1, WebSource) }

\* Where layer i lies in the layer tree at the start.
InitParents(i) == IF i % 2 = 1 THEN {-1} ELSE {Root, -1, -2}

\* The children of node g when layer l lies in parent[l]: the layers by id,
\* then the groups inside.
InitChildren(parent, g) ==
    LET RECURSIVE Below(_)
        Below(i) == IF i > InitLayers THEN <<>>
                    ELSE (IF parent[i] = g THEN <<i>> ELSE <<>>) \o Below(i + 1)
    IN Below(1) \o (IF g = Root THEN <<-1>> ELSE IF g = -1 THEN <<-2>> ELSE <<>>)

Init ==
    /\ layers \in { f \in [1..InitLayers -> UNION { InitLayerChoices(i) : i \in 1..InitLayers }] :
                      \A i \in 1..InitLayers : f[i] \in InitLayerChoices(i) }
    /\ nextId = InitLayers + 1
    /\ \E parent \in { f \in [1..InitLayers -> Groups \cup {Root}] :
                         \A i \in 1..InitLayers : f[i] \in InitParents(i) } :
          children = [g \in Groups \cup {Root} |-> InitChildren(parent, g)]
    /\ groupName \in { f \in [Groups -> GroupNames] : f[-2] = Str_G }
    /\ history = NoEntry
    /\ gpkgExists = FALSE
    /\ tables = << >>
    /\ before = NamesOf(layers)
    /\ renamed = [lastCall |-> {}, lastEffective |-> {}]
    /\ customLayerOrder = TreeOrder
    /\ pending = {}
    /\ NoIndicators
    /\ prev = Summary(NoOp)
    /\ ops = 0
    /\ last = NoOp

\* The handlers of the plugin and what the user does.
Next ==
    \/ RenameSelectedLayers
    \/ UndoLastRename
    \/ CopySelectedLayers
    \/ RenameAndCopyLayers
    \/ CopyRenamedLayers
    \/ UserRenameLayer
    \/ UserRemoveLayer

Spec == Init /\ [][Next]_vars

\* The project under the rename and undo actions of the plugin
NextRename ==
    \/ RenameSelectedLayers
    \/ UndoLastRename
    \/ UserRenameLayer
    \/ UserRemoveLayer

SpecRename == Init /\ [][NextRename]_vars

\* The project under the copy action of the plugin
NextCopy ==
    \/ CopySelectedLayers
    \/ UserRemoveLayer

\* The copy action reads no group name: the outer group is named "G".
InitCopy == Init /\ groupName[-1] = Str_G

SpecCopy == InitCopy /\ [][NextCopy]_vars

\* The project under the three menu actions that work on the selection
NextMenu ==
    \/ RenameSelectedLayers
    \/ CopySelectedLayers
    \/ RenameAndCopyLayers
    \/ CopyRenamedLayers

SpecMenu == InitCopy /\ [][NextMenu]_vars

\* get_selected_layers is called on the selection; Python iterates over the
\* set of the selected layers in some order.
GetSelectedLayers ==
    /\ Step
    /\ pending = {}
    /\ \E sel \in Selections :
          IF sel = {}
          THEN Raised("select", <<>>, "CustomUserError",
                      "No layers or groups selected.")
          ELSE \E iteration \in Orders(SelectedSet(sel)) :
                  last' = [NoOp EXCEPT
                             !.op = "select", !.nodes = sel,
                             !.selected = get_selected_layers_iterating(sel, iteration)]
    /\ UNCHANGED <<layers, nextId, children, groupName, history, gpkgExists,
                   tables, before, renamed, customLayerOrder, pending,
                   indicatorVars>>

\* The layer orders the user can set in the layer order panel: the order of
\* the tree, or a custom order of the spatial layers
LayerOrders ==
    {TreeOrder} \cup
    { [has |-> TRUE, order |-> o] :
        o \in Orders({ l \in Range(findLayers(Root)) : isSpatial(layers[l]) }) }

\* The user sets another layer order.
UserSetLayerOrder ==
    /\ Step
    /\ pending = {}
    /\ \E o \in LayerOrders :
          /\ o # customLayerOrder
          /\ customLayerOrder' = o
    /\ last' = [NoOp EXCEPT !.op = "user order"]
    /\ UNCHANGED <<layers, nextId, children, groupName, history, gpkgExists,
                   tables, before, renamed, pending,
                   indicatorVars>>

\* The layers a project may hold when get_selected_layers is called: those
\* of Init, or a table without geometry
SelectLayerChoices(i) ==
    InitLayerChoices(i) \cup
    (IF i % 2 = 0 THEN { Layer(Str_a, "vector", "Null", 1, FileSource) } ELSE {})

\* The projects get_selected_layers is called on
InitSelect ==
    /\ layers \in { f \in [1..InitLayers -> UNION { SelectLayerChoices(i) : i \in 1..InitLayers }] :
                      \A i \in 1..InitLayers : f[i] \in SelectLayerChoices(i) }
    /\ nextId = InitLayers + 1
    /\ \E parent \in { f \in [1..InitLayers -> Groups \cup {Root}] :
                         \A i \in 1..InitLayers : f[i] \in InitParents(i) } :
          children = [g \in Groups \cup {Root} |-> InitChildren(parent, g)]
    /\ groupName = [g \in Groups |-> Str_G]
    /\ history = NoEntry
    /\ gpkgExists = FALSE
    /\ tables = << >>
    /\ before = NamesOf(layers)
    /\ renamed = [lastCall |-> {}, lastEffective |-> {}]
    /\ customLayerOrder \in LayerOrders
    /\ pending = {}
    /\ NoIndicators
    /\ prev = Summary(NoOp)
    /\ ops = 0
    /\ last = NoOp

NextSelect ==
    \/ GetSelectedLayers
    \/ UserSetLayerOrder
    \/ UserRemoveLayer

SpecSelect == InitSelect /\ [][NextSelect]_vars

(***************************************************************************)
(* get_layer_location on the layers of a project                           *)
(***************************************************************************)

\* "|layername=<table>" after the file: a table of a file
FileTable(path, table) ==
    [type |-> "file", table |-> table, uri |-> path \o Str_layername \o table]

\* "/p/a.gpkg", "/p/b.gpkg", "/q/x.shp", "/p2/x.shp", "/q/p/a.gpkg",
\* "/P/x.shp", "/p/d/x.shp", "/p/b.sqlite"
Path_gpkg == <<47, 112, 47, 97>> \o Str_dot_gpkg
Path_other_gpkg == <<47, 112, 47, 98>> \o Str_dot_gpkg
Path_outside == <<47, 113, 47, 120, 46, 115, 104, 112>>
Path_sibling == <<47, 112, 50, 47, 120, 46, 115, 104, 112>>
Path_nested_gpkg == <<47, 113>> \o Path_gpkg
Path_upper == <<47, 80, 47, 120, 46, 115, 104, 112>>
Path_subfolder == <<47, 112, 47, 100, 47, 120, 46, 115, 104, 112>>
Path_sqlite == <<47, 112, 47, 98>> \o Str_dot_sqlite

\* The data sources of the layers get_layer_location is applied to
LocationSources ==
    { FileAt(path) : path \in { Path_shp, Path_other_gpkg, Path_outside,
                                 Path_sibling, Path_nested_gpkg, Path_upper,
                                 Path_subfolder, Path_sqlite } }
    \cup { FileTable(Path_gpkg, Str_a), WebSource, MemorySource }

\* The project files: a saved project "/p/a.qgz", or a project not saved yet
ProjectFiles == { Path_project, <<>> }

\* get_layer_location is called on a layer of the project.
GetLayerLocation ==
    /\ Step
    /\ \E l \in DOMAIN layers :
          last' = [NoOp EXCEPT !.op = "location", !.nodes = {l},
                               !.result = get_layer_location(layers[l])]
    /\ UNCHANGED <<layers, nextId, children, groupName, history, gpkgExists,
                   tables, before, renamed, customLayerOrder, pending,
                   indicatorVars>>

\* The user saves the project under another name or in another folder.
UserSaveProjectAs ==
    /\ Step
    /\ \E f \in ProjectFiles \ {<<>>, fileName} : fileName' = f
    /\ last' = [NoOp EXCEPT !.op = "user save"]
    /\ UNCHANGED <<layers, nextId, children, groupName, history, gpkgExists,
                   tables, before, renamed, customLayerOrder, pending,
                   os_name, node, view, nextObject, location_indicators,
                   layer_locations, shared_groups, update_timer, singleShots,
                   connected, editingStopped, lifecycle>>

\* The projects get_layer_location is called on: the layers lie in the root
\* of the layer tree, on either platform
InitLocation ==
    /\ layers \in [1..InitLayers ->
                     { Layer(Str_a, "vector", "Point", 1, src) :
                         src \in LocationSources }]
    /\ nextId = InitLayers + 1
    /\ children = [g \in Groups \cup {Root} |->
                     InitChildren([i \in 1..InitLayers |-> Root], g)]
    /\ groupName = [g \in Groups |-> Str_G]
    /\ history = NoEntry
    /\ gpkgExists = FALSE
    /\ tables = << >>
    /\ before = NamesOf(layers)
    /\ renamed = [lastCall |-> {}, lastEffective |-> {}]
    /\ customLayerOrder = TreeOrder
    /\ pending = {}
    /\ fileName \in ProjectFiles
    /\ os_name \in {"posix", "nt"}
    /\ node = [l \in DOMAIN layers |-> l]
    /\ view = << >>
    /\ nextObject = InitLayers + 1
    /\ location_indicators = << >>
    /\ layer_locations = << >>
    /\ shared_groups = << >>
    /\ update_timer = FALSE
    /\ singleShots = <<>>
    /\ connected = {}
    /\ editingStopped = [l \in DOMAIN layers |-> 0]
    /\ lifecycle = "new"
    /\ prev = Summary(NoOp)
    /\ ops = 0
    /\ last = NoOp

NextLocation ==
    \/ GetLayerLocation
    \/ UserSaveProjectAs

SpecLocation == InitLocation /\ [][NextLocation]_vars

(***************************************************************************)
(* The location indicators while the user works on the project             *)
(***************************************************************************)

\* Layer i of the project when the plugin is loaded: a vector layer with or
\* without features on a file of the project folder or in memory, or a
\* layer with features on a file inside or outside the project folder
IndicatorLayerChoices(i) ==
    IF i % 2 = 1
    THEN { Layer(Str_a, "vector", "Point", f, src) :
             f \in {0, 1}, src \in {FileAt(Path_shp), MemorySource} }
    ELSE { Layer(Str_x, "vector", "Point", 1, FileAt(Path_shp)),
           Layer(Str_x, "vector", "Point", 1, FileAt(Path_outside)),
           Layer(Str_x, "raster", "NA", 0, FileAt(Path_shp)) }

\* The project when the plugin is loaded: the layers lie in the root of the
\* layer tree, each with its node
InitManager ==
    /\ layers \in { f \in [1..InitLayers -> UNION { IndicatorLayerChoices(i) : i \in 1..InitLayers }] :
                      \A i \in 1..InitLayers : f[i] \in IndicatorLayerChoices(i) }
    /\ nextId = InitLayers + 1
    /\ children = [g \in Groups \cup {Root} |->
                     InitChildren([i \in 1..InitLayers |-> Root], g)]
    /\ groupName = [g \in Groups |-> Str_G]
    /\ history = NoEntry
    /\ gpkgExists = FALSE
    /\ tables = << >>
    /\ before = NamesOf(layers)
    /\ renamed = [lastCall |-> {}, lastEffective |-> {}]
    /\ customLayerOrder = TreeOrder
    /\ pending = {}
    /\ fileName \in ProjectFiles
    /\ os_name = "posix"
    /\ node = [l \in DOMAIN layers |-> l]
    /\ view = << >>
    /\ nextObject = InitLayers + 1
    /\ location_indicators = << >>
    /\ layer_locations = << >>
    /\ shared_groups = << >>
    /\ update_timer = FALSE
    /\ singleShots = <<>>
    /\ connected = {}
    /\ editingStopped = [l \in DOMAIN layers |-> 0]
    /\ lifecycle = "new"
    /\ prev = Summary(NoOp)
    /\ ops = 0
    /\ last = NoOp

\* The plugin is loaded and unloaded, the signals it listens to arrive and
\* the calls it deferred run, while the user works on the layers.
NextManager ==
    \/ InitIndicators
    \/ OnProjectRead
    \/ LayoutChanged
    \/ OnLayerTreeModelReset
    \/ SingleShot
    \/ Unload
    \/ UserRemoveLayer
    \/ UserMoveLayer
    \/ UserDuplicateLayer
    \/ UserStopEditing

SpecManager == InitManager /\ [][NextManager]_vars

(***************************************************************************)
(* Properties of rename_layers and undo_rename_layers                      *)
(***************************************************************************)

\* The sanitised name: the mojibake repaired where that is possible, and
\* every run of problematic characters replaced by an underscore.
SanitisedName(name) ==
    LET dec == IF Cp1252Encodable(name)
               THEN Utf8Decode(Cp1252Encode(name))
               ELSE [ok |-> FALSE, s |-> <<>>]
    IN Sanitize(IF dec.ok THEN dec.s ELSE name)

\* The direct parent of the layer is a group with a name.
InNamedGroup(l) == Parent(l) # Root /\ groupName[Parent(l)] # <<>>

\* The name the layer is to get: the sanitised name of its parent group.
Target(l) == SanitisedName(groupName[Parent(l)])

\* " - l", " - pt", " - pg", " - pl", " - No geometry"
GeometrySuffixes ==
    { <<32, 45, 32>> \o x :
        x \in { <<108>>, <<112, 116>>, <<112, 103>>, <<112, 108>>,
                <<78, 111, 32, 103, 101, 111, 109, 101, 116, 114, 121>> } }

\* The selected layers, other than l, that target the same name as l
Rivals(l) ==
    { k \in Range(last.selected) \ {l} : InNamedGroup(k) /\ Target(k) = Target(l) }

\* C1: after rename_layers every selected layer whose direct parent is a
\* named group carries the sanitised name of that group: exactly that name
\* when no other selected layer targets it, and that name with a geometry
\* suffix or with no suffix when several selected layers target it.
C1_SelectedLayersCarryGroupName ==
    last.op = "rename" =>
        \A l \in Range(last.selected) :
            InNamedGroup(l) =>
                IF Rivals(l) = {}
                THEN layers[l].name = Target(l)
                ELSE layers[l].name \in
                        {Target(l)} \cup { Target(l) \o x : x \in GeometrySuffixes }

\* C2: rename_layers changes the name of no layer outside the selection and
\* of no selected layer whose direct parent is the root or has an empty name.
C2_OnlySelectedLayersInGroupsRenamed ==
    last.op = "rename" =>
        \A l \in DOMAIN layers :
            (l \notin Range(last.selected) \/ ~InNamedGroup(l))
                => layers[l].name = before[l]

\* A rename renamed a selected layer and left alone a layer that is not
\* selected, though it does not carry the name of its group.
C2_Witness ==
    /\ last.op = "rename"
    /\ last.result # <<>>
    /\ \E l \in DOMAIN layers \ Range(last.selected) :
          InNamedGroup(l) /\ layers[l].name # Target(l)

\* C3: of the selected layers that would get the same new name, any two
\* with different geometry types end up with different final names.
C3_CollidingGeometryTypesGetDifferentNames ==
    (last.op = "rename" /\ last.raised = "") =>
        \A l \in Range(last.selected) :
            \A k \in Rivals(l) :
                (/\ InNamedGroup(l)
                 /\ layers[l].kind = "vector" /\ layers[k].kind = "vector"
                 /\ layers[l].geom # layers[k].geom)
                    => layers[l].name # layers[k].name

\* The layers an undo reverted
Reverted == LayersIn(last.result)

\* The step is an undo_rename_layers call
UndoStep == last'.op = "undo" /\ ops' # ops

\* C4: round trip: an undo_rename_layers right after a rename_layers gives
\* every layer whose name the rename changed the name it had before the
\* rename, and reports each of them as a success.
C4_RenameThenUndoRestoresNames ==
    [][ (last.op = "rename" /\ UndoStep) =>
            \A l \in DOMAIN layers :
                layers[l].name # before[l] =>
                   /\ layers'[l].name = before[l]
                   /\ \E i \in 1..Len(last'.result) :
                         /\ last'.result[i].layer = l
                         /\ last'.result[i].new_name = before[l]
                         /\ last'.successes[i] = layers[l].name ]_vars

\* An undo, right after a rename that changed a name, restored the names.
C4_Witness ==
    /\ last.op = "undo" /\ prev.op = "rename"
    /\ Len(last.successes) = 2
    /\ renamed.lastCall = Reverted
    /\ NamesOf(layers) = before

\* C5, as claimed: the layers undo_rename_layers reverts are those renamed by
\* the most recent rename_layers call, none is of an earlier call.
C5_UndoRevertsMostRecentCall ==
    (last.op = "undo" /\ last.raised = "") =>
        Reverted \subseteq renamed.lastCall

\* C5, amended: undo_rename_layers undoes the most recent rename_layers call
\* that renamed a layer (a later call that renames nothing leaves the
\* history alone): the layers it reverts are renamed by that call, each
\* other layer of that call is reported as a skip or an error, and no rename
\* of an earlier call is reverted.
C5_UndoRevertsMostRecentEffectiveCall ==
    /\ history.found =>
          { history.text[i][1] : i \in 1..Len(history.text) } = renamed.lastEffective
    /\ (last.op = "undo" /\ last.raised = "") =>
          /\ Reverted \subseteq renamed.lastEffective
          /\ Cardinality(Reverted) + Len(last.skips) + Len(last.errors)
                = Cardinality(renamed.lastEffective)

\* An undo reverted a layer although the most recent rename_layers call
\* renamed nothing.
C5_Witness ==
    /\ last.op = "undo" /\ prev.op = "rename"
    /\ Reverted # {}
    /\ renamed.lastCall = {}

\* C6: undo_rename_layers forces no undo: a layer whose name differs from the
\* new name the history records for it keeps its name and is reported as a
\* skip; a layer of the history that is no longer in the project is reported
\* as an error.
C6_UndoNeverForced ==
    [][ (UndoStep /\ history.found) =>
            \A i \in 1..Len(history.text) :
                LET layer_id == history.text[i][1]
                    old_name == history.text[i][2]
                    new_name == history.text[i][3]
                IN /\ (layer_id \in DOMAIN layers /\ layers[layer_id].name # new_name)
                        => /\ layers'[layer_id].name = layers[layer_id].name
                           /\ \E j \in 1..Len(last'.skips) :
                                 last'.skips[j].layer = old_name
                           /\ layer_id \notin LayersIn(last'.result)
                   /\ layer_id \notin DOMAIN layers
                        => /\ \E j \in 1..Len(last'.errors) :
                                 last'.errors[j].layer = new_name
                           /\ layer_id \notin LayersIn(last'.result) ]_vars

\* An undo skipped a layer the user had renamed since the rename.
C6_Witness ==
    /\ last.op = "undo" /\ prev.op = "user rename"
    /\ last.skips # <<>>
    /\ \E l \in renamed.lastEffective :
          l \in DOMAIN layers /\ layers[l].name \in UserNames

\* The last operation is an undo that reverted or skipped a layer
UndoDone ==
    /\ last.op = "undo" /\ last.raised = ""
    /\ (last.successes # <<>> \/ last.skips # <<>>)

\* C7: after an undo_rename_layers that reverted or skipped a layer the
\* history is removed; an undo_rename_layers that follows at once raises
\* "No rename operation found to undo." and changes no layer name.
C7_NoSecondUndo ==
    /\ [](UndoDone => ~history.found)
    /\ [][ (UndoDone /\ UndoStep) =>
              /\ last'.raised = "CustomRuntimeError"
              /\ last'.message = "No rename operation found to undo."
              /\ layers' = layers ]_vars

\* A second undo in a row raised.
C7_Witness ==
    /\ last.op = "undo" /\ last.raised = "CustomRuntimeError"
    /\ prev.op = "undo" /\ prev.cleared

(***************************************************************************)
(* Properties of copy_layers_to_gpkg                                       *)
(***************************************************************************)

\* The step is a copy_layers_to_gpkg call
CopyStep == last'.op = "copy" /\ ops' # ops

\* C8: copy_layers_to_gpkg overwrites a table that was in the GeoPackage
\* only if it has the name and the geometry type of the layer copied; a
\* table of another geometry type or kind is not replaced or dropped.
C8_OverwriteOnlySameNameAndGeometry ==
    last.op = "copy" =>
        \A r \in last.replaced :
            r.old => /\ r.table = r.by.name
                     /\ r.was.kind = r.by.kind
                     /\ r.was.geom = r.by.geom

\* C9: when the overwrite warning is answered with no, copy_layers_to_gpkg
\* writes or drops no table, adds no layer to the project or the layer tree
\* and returns "User Cancelled" as the only error.
C9_CancelledCopyChangesNothing ==
    [][ (CopyStep /\ last'.answer = "no") =>
            /\ tables' = tables
            /\ layers' = layers
            /\ children' = children
            /\ Len(last'.errors) = 1
            /\ last'.errors[1].layer = "User Cancelled"
            /\ last'.successes = <<>> /\ last'.added = <<>> ]_vars

\* The warning was shown for a table in use and answered with no.
C9_Witness ==
    /\ last.op = "copy" /\ last.asked /\ last.answer = "no"
    /\ dependencies \cap DOMAIN tables # {}

\* C10: the layers loaded back by copy_layers_to_gpkg are new layers of the
\* project on tables of the GeoPackage; they are the first children of the
\* root of the layer tree, above everything that was in the tree.
C10_CopiesOnTopOfTree ==
    [][ CopyStep =>
            LET new == DOMAIN layers' \ DOMAIN layers
                k == Cardinality(new)
                top == children'[Root]
            IN /\ Len(top) = k + Len(children[Root])
               /\ Range(SubSeq(top, 1, k)) = new
               /\ SubSeq(top, k + 1, Len(top)) = children[Root]
               /\ \A g \in Groups : children'[g] = children[g]
               /\ Range(last'.added) = new
               /\ Len(last'.successes) = k
               /\ \A l \in new :
                     /\ layers'[l].src.type = "gpkg"
                     /\ layers'[l].src.table \in DOMAIN tables' ]_vars

\* A copy put two new layers on top of a layer tree that was not empty.
C10_Witness ==
    /\ last.op = "copy" /\ Len(last.added) = 2
    /\ Range(SubSeq(children[Root], 1, 2)) = Range(last.added)
    /\ Len(children[Root]) > 2

\* C11: copy_layers_to_gpkg leaves the layers that were in the project as
\* they are: each is still in the project, at its place in the layer tree,
\* with its name and its data source; the copies are additional layers.
C11_OriginalsUntouched ==
    [][ CopyStep =>
            \A l \in DOMAIN layers :
                /\ l \in DOMAIN layers'
                /\ layers'[l] = layers[l]
                /\ \A g \in DOMAIN children :
                      l \in Range(children[g]) => l \in Range(children'[g])
                /\ l \notin Range(last'.added) ]_vars

\* A copy loaded a layer back next to the selected layer it was made of,
\* which still reads its file.
C11_Witness ==
    /\ last.op = "copy"
    /\ \E l \in Range(last.selected), k \in Range(last.added) :
          /\ l \in Range(findLayers(Root))
          /\ layers[l].src = FileSource
          /\ layers[k].src.type = "gpkg"
          /\ layers[k].name = layers[l].name

(***************************************************************************)
(* Properties of the menu actions                                          *)
(***************************************************************************)

\* The step is one of the menu actions rename, copy, rename and copy
MenuStep == last'.op \in {"rename", "copy"} /\ ops' # ops

\* C12: with nothing selected, a menu action aborts with a CustomUserError
\* (suppressed by the handler) without a summary, and leaves the layers and
\* their names, the undo history and the GeoPackage file as they are.
C12_NothingSelectedChangesNothing ==
    [][ (MenuStep /\ last'.nothing_selected) =>
            /\ last'.raised = "CustomUserError"
            /\ ~last'.summary
            /\ pending' = {}
            /\ layers' = layers
            /\ history' = history
            /\ gpkgExists' = gpkgExists
            /\ tables' = tables ]_vars

(***************************************************************************)
(* Properties of get_selected_layers                                       *)
(***************************************************************************)

\* The group g encloses the node n at some depth
RECURSIVE Encloses(_, _)
Encloses(g, n) == n # Root /\ (Parent(n) = g \/ Encloses(g, Parent(n)))

\* The position of a layer in the layer tree, counted from the top
TreePosition(l) ==
    CHOOSE i \in 1..Len(findLayers(Root)) : findLayers(Root)[i] = l

\* C16: get_selected_layers returns each layer that is selected or lies at
\* any depth in a selected group exactly once, also when the layer and its
\* group are both selected, sorted top to bottom by position in the tree.
C16_SelectedOnceTopToBottom ==
    (last.op = "select" /\ last.raised = "") =>
        LET res == last.selected
            S == { l \in Range(findLayers(Root)) :
                     \/ l \in last.nodes
                     \/ \E g \in last.nodes \cap Groups : Encloses(g, l) }
        IN /\ Range(res) = S
           /\ Len(res) = Cardinality(S)
           /\ \A i, j \in 1..Len(res) :
                 i < j => TreePosition(res[i]) < TreePosition(res[j])

(***************************************************************************)
(* Properties of get_layer_location                                        *)
(***************************************************************************)

\* The file of a file-based layer, as the platform compares paths
SourceFile(layer) == normcase(BeforeBar(source(layer)))

\* The file of the layer is the GeoPackage of the project
IsProjectGpkg(layer) == SourceFile(layer) = normcase(project_gpkg)

\* The file of the layer lies in the folder of the project, at any depth
InProjectFolder(layer) ==
    StartsWith(SourceFile(layer),
               IF PathParent(project_gpkg) = Sep THEN Sep
               ELSE normcase(PathParent(project_gpkg)) \o Sep)

\* C13: for a file-based layer of a saved project, get_layer_location
\* returns GPKG_PROJECT exactly when the file of the layer is the GeoPackage
\* of the project, GPKG_FOLDER (a .gpkg or .sqlite file) or FOLDER_NO_GPKG
\* exactly when it is another file inside the project folder, and EXTERNAL
\* exactly when the file lies outside the project folder.
C13_LocationByFileAndFolder ==
    (last.op = "location" /\ fileName # <<>>) =>
        \A l \in last.nodes :
            layers[l].src.type = "file" =>
                last.result =
                    IF IsProjectGpkg(layers[l]) THEN "GPKG_PROJECT"
                    ELSE IF InProjectFolder(layers[l])
                    THEN (IF EndsWith(SourceFile(layers[l]), Str_dot_gpkg)
                             \/ EndsWith(SourceFile(layers[l]), Str_dot_sqlite)
                          THEN "GPKG_FOLDER" ELSE "FOLDER_NO_GPKG")
                    ELSE "EXTERNAL"

(***************************************************************************)
(* Properties of the location indicators                                   *)
(***************************************************************************)

\* The operations that are a full update of the indicators
FullUpdates ==
    {"init_indicators", "_on_project_read", "_on_layer_tree_model_reset"}

\* The step is a full update, and the operation before it was one too: no
\* layer, node or source has changed in between.
RepeatedFullUpdate ==
    /\ last.op \in FullUpdates
    /\ last'.op \in FullUpdates
    /\ ops' = ops + 1

\* The indicators of the view after the step were all there before it.
NoIndicatorAdded ==
    \A n \in DOMAIN view' :
        /\ n \in DOMAIN view
        /\ Range(view'[n]) \subseteq Range(view[n])

C15_NothingAddedAfterUnload ==
    [][ lifecycle = "unloaded" =>
            /\ NoIndicatorAdded
            /\ DOMAIN location_indicators' \subseteq DOMAIN location_indicators
            /\ DOMAIN layer_locations' \subseteq DOMAIN layer_locations ]_vars

====
